---- MODULE Spec2Model ----
(***************************************************************************)
(* Beeminder timer (src/unnamed/part_000, the latest App component; the    *)
(* earlier variants are in src/src/App.tsx).  One React component: its     *)
(* useState cells are the variables, every event handler, interval         *)
(* callback, promise continuation and effect is an action.  Time is in     *)
(* milliseconds (Date.now()), remaining and selectedDuration in seconds.   *)
(***************************************************************************)
EXTENDS Integers, Sequences, FiniteSets, TLC

VARIABLES
    status,             \* useState<Status>                      (line 71)
    remaining,          \* useState<number | null>               (line 68)
    deadline,           \* useState<number | null>               (line 69)
    paused,             \* useState(false)                       (line 74)
    error,              \* useState<string | null>               (line 72)
    flushMessage,       \* useState<string | null>               (line 92)
    username,           \* useState("")                          (line 76)
    authToken,          \* useState("")                          (line 77)
    goalSlug,           \* useState("")                          (line 78)
    comment,            \* useState("")                          (line 79)
    selectedDuration,   \* useState(THIRTY_MINUTES)              (line 90)
    goals,              \* useState<BeeminderGoal[]>([])         (line 82)
    loadingGoals,       \* useState(false)                       (line 83)
    goalsError,         \* useState<string | null>               (line 84)
    lastGoalsUpdate,    \* useState<number | null>               (line 85)
    hasStoredSettings,  \* useState(false)                       (line 87)
    showSettingsForm,   \* useState(true)                        (line 88)
    storage,            \* localStorage, the three keys of lines 28-30
    now,                \* Date.now()
    posts,              \* datapoint POSTs awaiting their response, in issue order
    goalFetches,        \* goals GETs awaiting their response
    postEffectPending,  \* the post-on-zero effect is scheduled for the committed render
    lastEvent,          \* history: the last handler, callback or continuation that ran
    attempts,           \* history: completion POSTs issued since remaining last became 0
    accepted            \* history: completion datapoints the service has accepted
                        \* for the session last started: 0, 1, or 2 for "several";
                        \* -1 when answers cannot be told apart by session
VARIABLES
    firstRemaining,     \* remaining of the first App variant (App.tsx line 36),
                        \* shown beside the later one and given the same start
    firstIntervalDue    \* when the interval of App.tsx line 118 next fires

timerVars    == <<status, remaining, deadline, paused, error, flushMessage>>
sessionVars  == <<goalSlug, comment, selectedDuration>>
accountVars  == <<username, authToken, hasStoredSettings, showSettingsForm>>
goalVars     == <<goals, loadingGoals, goalsError, lastGoalsUpdate>>
vars == <<status, remaining, deadline, paused, error, flushMessage, username,
          authToken, goalSlug, comment, selectedDuration, goals, loadingGoals,
          goalsError, lastGoalsUpdate, hasStoredSettings, showSettingsForm,
          storage, now, posts, goalFetches, postEffectPending, lastEvent, attempts,
          accepted, firstRemaining, firstIntervalDue>>

---------------------------------------------------------------------------
(* Nullable values: null is the empty sequence, a value v is <<v>>.        *)
Null == <<>>
Some(v) == <<v>>
IsNull(x) == x = Null
Val(x) == x[1]

Max(a, b) == IF a >= b THEN a ELSE b

(* Program constants *)
THIRTY_MINUTES == 30 * 60
SecondsPerMinute == 60
MsPerSecond == 1000
TickMs == 250

SETTINGS_KEY == "beeminderTimerSettings"
GOALS_KEY == "beeminderTimerGoals"
TIMER_STATE_KEY == "beeminderTimerState"
StorageKeys == {SETTINGS_KEY, GOALS_KEY, TIMER_STATE_KEY}

Statuses == {"idle", "running", "posting", "finished", "error"}

(* Bounds of the model *)
MaxInFlight == 2        \* datapoint POSTs outstanding when a timer is started
MaxAttempts == 2        \* the attempts history counts up to this

(* The instants at which the model reads the clock: just after a start at   *)
(* 0, and around the deadline of a one-minute session started at 0.       *)
ClockReadings == {0, 2 * TickMs, 4 * TickMs,
                  60 * MsPerSecond - 2 * TickMs, 60 * MsPerSecond,
                  60 * MsPerSecond + 2 * TickMs}

(* Inputs the user and the remote service supply *)
Usernames == {"", "alice"}
Tokens == {"", "tok"}
Comments == {"", "deep work"}
DurationButtons == {30}                 \* of durations = [5, 10, 20, 30, 45, 60]
TypedTexts == { <<"1", ":", "0", "0">>,         \* "1:00"
                <<"-", "1", ":", "0", "0">>,    \* "-1:00"
                <<"0", ":", "0", "0">>,         \* "0:00"
                <<":", "0", "0">> }             \* ":00"
GoalRead == [slug |-> "read", gunits |-> "minutes"]
GoalRun  == [slug |-> "run",  gunits |-> "miles"]
GoalCode == [slug |-> "code", gunits |-> "minutes"]
ServerGoalLists == { <<GoalRun, GoalRead>>, <<GoalCode>> }

---------------------------------------------------------------------------
(* Pure helpers *)

\* Math.round replaced by truncation toward minus infinity; C9_TickRecomputes
\* tells the two apart at a tick half a second before the deadline
MathTruncate(ms, k) == ms \div k

\* Math.round(ms / k): the nearest integer, halves towards +infinity.
MathRound(ms, k) == (2 * ms + k) \div (2 * k)

\* line 185-186: secsLeft = Math.max(0, Math.round((deadline - Date.now()) / 1000))
SecsLeft(dl, t) == Max(0, MathRound(dl - t, MsPerSecond))

\* seconds / 60 as posted: whole minutes and sixtieths of a minute.
MinutesValue(secs) == [whole |-> secs \div SecondsPerMinute,
                       sixtieths |-> secs % SecondsPerMinute]

Digits == {"0", "1", "2", "3", "4", "5", "6", "7", "8", "9"}
DigitValue(c) == CASE c = "0" -> 0 [] c = "1" -> 1 [] c = "2" -> 2 [] c = "3" -> 3
                   [] c = "4" -> 4 [] c = "5" -> 5 [] c = "6" -> 6 [] c = "7" -> 7
                   [] c = "8" -> 8 [] c = "9" -> 9

\* text.split(":")[0]: the characters before the first colon.
RECURSIVE BeforeColon(_)
BeforeColon(text) ==
    IF text = <<>> \/ Head(text) = ":" THEN <<>>
    ELSE <<Head(text)>> \o BeforeColon(Tail(text))

\* The leading run of decimal digits, read as a number with accumulator acc.
RECURSIVE LeadingDigits(_, _)
LeadingDigits(text, acc) ==
    IF text = <<>> \/ Head(text) \notin Digits THEN acc
    ELSE LeadingDigits(Tail(text), 10 * acc + DigitValue(Head(text)))

\* parseInt(text): optional sign, then digits; NaN (Null here) without a digit.
ParseInt(text) ==
    LET neg  == text # <<>> /\ Head(text) = "-"
        body == IF text # <<>> /\ Head(text) \in {"-", "+"} THEN Tail(text) ELSE text
    IN  IF body = <<>> \/ Head(body) \notin Digits THEN Null
        ELSE Some(IF neg THEN 0 - LeadingDigits(body, 0) ELSE LeadingDigits(body, 0))

\* lines 586-588: minutes = parseInt(value.split(":")[0]) || 1
TypedMinutes(text) ==
    LET n == ParseInt(BeforeColon(text))
    IN  IF IsNull(n) \/ Val(n) = 0 THEN 1 ELSE Val(n)

\* JSON.parse that never throws and hands back whatever the text held;
\* C18_MalformedRecordIgnored tells the two apart
JSONparseLenient(raw) == Some(raw.obj)

\* JSON.stringify / JSON.parse of a stored record; parse throws on malformed text.
JSONstringify(obj) == [wellFormed |-> TRUE, obj |-> obj]
JSONparse(raw) == IF raw.wellFormed THEN Some(raw.obj) ELSE Null

\* localStorage.getItem(key) then JSON.parse inside try/catch: the parsed
\* object, or Null when the key is absent or its text does not parse.
StoredObject(store, key) ==
    IF IsNull(store[key]) THEN Null ELSE JSONparse(Val(store[key]))

SetItem(store, key, obj) == [store EXCEPT ![key] = Some(JSONstringify(obj))]
RemoveItem(store, key) == [store EXCEPT ![key] = Null]

\* parsed.filter(goal => goal.gunits === 'minutes')
RECURSIVE FilterMinutes(_)
FilterMinutes(list) ==
    IF list = <<>> THEN <<>>
    ELSE IF Head(list).gunits = "minutes"
         THEN <<Head(list)>> \o FilterMinutes(Tail(list))
         ELSE FilterMinutes(Tail(list))

Slugs(list) == {list[i].slug : i \in 1..Len(list)}

RemoveAt(seq, i) == SubSeq(seq, 1, i - 1) \o SubSeq(seq, i + 1, Len(seq))

running == status = "running"

\* The dependency list of the post-on-zero effect (line 264).
PostEffectDeps == <<remaining, status, username, authToken, goalSlug, comment,
                    selectedDuration>>
\* React runs the effect after a commit in which a dependency changed.
SchedulePostEffect == postEffectPending' = (PostEffectDeps' # PostEffectDeps)

\* History: a completion POST issued in this step counts towards the current
\* stay of remaining at 0; the count starts over when remaining leaves 0.
CountAttempts ==
    attempts' =
        IF remaining' # Some(0) THEN 0
        ELSE IF Len(posts') > Len(posts) /\ posts'[Len(posts')].kind = "complete"
                  /\ attempts < MaxAttempts
             THEN attempts + 1
             ELSE attempts

OneMore(n) == IF n = 0 THEN 1 ELSE IF n = -1 THEN -1 ELSE 2

\* History: a start opens a new session; a 2xx answer to a completion POST
\* is a datapoint accepted.  A session started while a POST of an earlier
\* session is still in flight is not counted (-1): the answers that follow
\* may belong to either.
CountAccepted ==
    accepted' =
        IF status = "idle" /\ status' = "running"
        THEN (IF posts = <<>> THEN 0 ELSE -1)
        ELSE IF /\ lastEvent' = "postOk"
                /\ \E i \in 1..Len(posts) : /\ posts' = RemoveAt(posts, i)
                                            /\ posts[i].kind = "complete"
             THEN OneMore(accepted)
             ELSE accepted

\* What follows every handler: the commit schedules the effects.
CommitEffects == SchedulePostEffect /\ CountAttempts /\ CountAccepted

\* The handlers of the later variants know nothing of the first variant.
Commit == CommitEffects /\ UNCHANGED <<firstRemaining, firstIntervalDue>>

---------------------------------------------------------------------------
(* Construction: the useState defaults (lines 68-92), empty localStorage,  *)
(* nothing in flight.  The mount effects find nothing to load.             *)
Init ==
    /\ status = "idle"
    /\ remaining = Null
    /\ deadline = Null
    /\ paused = FALSE
    /\ error = Null
    /\ flushMessage = Null
    /\ username = ""
    /\ authToken = ""
    /\ goalSlug = ""
    /\ comment = ""
    /\ selectedDuration = THIRTY_MINUTES
    /\ goals = <<>>
    /\ loadingGoals = FALSE
    /\ goalsError = Null
    /\ lastGoalsUpdate = Null
    /\ hasStoredSettings = FALSE
    /\ showSettingsForm = TRUE
    /\ storage = [k \in StorageKeys |-> Null]
    /\ now = 0
    /\ posts = <<>>
    /\ goalFetches = <<>>
    /\ postEffectPending = FALSE
    /\ lastEvent = "mount"
    /\ attempts = 0
    /\ accepted = 0
    /\ firstRemaining = Null
    /\ firstIntervalDue = Null

\* Every handler and callback below runs on a committed render whose effects
\* have run: React flushes the passive effects of a render before the next
\* event is handled.
Settled == ~postEffectPending

\* The settings inputs and the save button are rendered (line 639).
SettingsFormShown == ~hasStoredSettings \/ showSettingsForm

---------------------------------------------------------------------------
(* The page is loaded again: a new component instance with the defaults,   *)
(* then the load effect of lines 99-147 over the surviving localStorage.   *)
(* Requests of the old page have nobody left to answer to; the service     *)
(* may have received them all the same, or the unload may have cut them     *)
(* off before they left.                                                    *)
Reload ==
    LET st  == StoredObject(storage, SETTINGS_KEY)
        gl  == StoredObject(storage, GOALS_KEY)
        tm  == StoredObject(storage, TIMER_STATE_KEY)
        loadedUsername == IF IsNull(st) THEN "" ELSE Val(st).username
        loadedToken    == IF IsNull(st) THEN "" ELSE Val(st).authToken
        loadedGoalSlug == IF IsNull(st) THEN "" ELSE Val(st).goalSlug
    IN  /\ Settled
        /\ username' = loadedUsername
        /\ authToken' = loadedToken
        /\ hasStoredSettings' = (loadedUsername # "" /\ loadedToken # "")
        /\ showSettingsForm' = ~(loadedUsername # "" /\ loadedToken # "")
        /\ goals' = IF IsNull(gl) THEN <<>> ELSE Val(gl).goals
        /\ lastGoalsUpdate' = IF IsNull(gl) THEN Null ELSE Some(Val(gl).updatedAt)
        /\ loadingGoals' = FALSE
        /\ goalsError' = Null
        /\ IF IsNull(tm)
           THEN /\ status' = "idle"
                /\ remaining' = Null
                /\ deadline' = Null
                /\ paused' = FALSE
                /\ goalSlug' = loadedGoalSlug
                /\ selectedDuration' = THIRTY_MINUTES
                /\ comment' = ""
           ELSE /\ status' = Val(tm).status
                /\ remaining' = Some(Val(tm).remaining)
                /\ deadline' = Val(tm).deadline
                /\ paused' = Val(tm).paused
                /\ goalSlug' = Val(tm).goalSlug             \* parsed.goalSlug || ""
                /\ selectedDuration' = Val(tm).selectedDuration  \* || 0
                /\ comment' = Val(tm).comment               \* parsed.comment || ""
        /\ error' = Null
        /\ flushMessage' = Null
        /\ posts' = <<>>
        /\ goalFetches' = <<>>
        /\ postEffectPending' =
              (PostEffectDeps' # <<Null, "idle", "", "", "", "", THIRTY_MINUTES>>)
        /\ lastEvent' = "mount"
        /\ attempts' = 0
        /\ \/ accepted' = accepted
           \/ /\ \E i \in 1..Len(posts) : posts[i].kind = "complete"
              /\ accepted' = OneMore(accepted)
        /\ firstRemaining' = Null          \* the first variant stores no timer
        /\ firstIntervalDue' = Null
        /\ UNCHANGED <<storage, now>>

---------------------------------------------------------------------------
(* Form controls *)

\* line 646: onChange of the username input (disabled while running)
SetUsername(v) ==
    /\ Settled /\ SettingsFormShown /\ ~running
    /\ username' = v
    /\ lastEvent' = "user"
    /\ UNCHANGED <<timerVars, sessionVars, goalVars, authToken, hasStoredSettings,
                   showSettingsForm, storage, now, posts, goalFetches>>
    /\ Commit

\* line 656: onChange of the token input (disabled while running)
SetAuthToken(v) ==
    /\ Settled /\ SettingsFormShown /\ ~running
    /\ authToken' = v
    /\ lastEvent' = "user"
    /\ UNCHANGED <<timerVars, sessionVars, goalVars, username, hasStoredSettings,
                   showSettingsForm, storage, now, posts, goalFetches>>
    /\ Commit

\* saveSettings that leaves the token out of the record;
\* C16_SettingsRestored tells the two apart
SaveSettingsWithoutToken ==
    /\ Settled /\ SettingsFormShown
    /\ storage' = SetItem(storage, SETTINGS_KEY,
                          [username |-> username, authToken |-> "",
                           goalSlug |-> goalSlug])
    /\ IF username # "" /\ authToken # ""
       THEN hasStoredSettings' = TRUE /\ showSettingsForm' = FALSE
       ELSE UNCHANGED <<hasStoredSettings, showSettingsForm>>
    /\ lastEvent' = "save"
    /\ UNCHANGED <<timerVars, sessionVars, goalVars, username, authToken, now,
                   posts, goalFetches>>
    /\ Commit

\* lines 436-443
SaveSettings ==
    /\ Settled /\ SettingsFormShown
    /\ storage' = SetItem(storage, SETTINGS_KEY,
                          [username |-> username, authToken |-> authToken,
                           goalSlug |-> goalSlug])
    /\ IF username # "" /\ authToken # ""
       THEN hasStoredSettings' = TRUE /\ showSettingsForm' = FALSE
       ELSE UNCHANGED <<hasStoredSettings, showSettingsForm>>
    /\ lastEvent' = "save"
    /\ UNCHANGED <<timerVars, sessionVars, goalVars, username, authToken, now,
                   posts, goalFetches>>
    /\ Commit

\* lines 628-635: the "Edit settings" button
EditSettings ==
    /\ Settled /\ hasStoredSettings /\ ~showSettingsForm /\ ~running
    /\ showSettingsForm' = TRUE
    /\ lastEvent' = "user"
    /\ UNCHANGED <<timerVars, sessionVars, goalVars, username, authToken,
                   hasStoredSettings, storage, now, posts, goalFetches>>
    /\ Commit

\* lines 515-528: the goal select offers "" and the slugs of the loaded goals
SelectGoal(v) ==
    /\ Settled /\ ~running /\ goals # <<>>
    /\ v \in {""} \cup Slugs(goals)
    /\ goalSlug' = v
    /\ lastEvent' = "user"
    /\ UNCHANGED <<timerVars, comment, selectedDuration, accountVars, goalVars,
                   storage, now, posts, goalFetches>>
    /\ Commit

\* lines 568-574: the comment input (disabled while running)
SetComment(v) ==
    /\ Settled /\ ~running
    /\ comment' = v
    /\ lastEvent' = "user"
    /\ UNCHANGED <<timerVars, goalSlug, selectedDuration, accountVars, goalVars,
                   storage, now, posts, goalFetches>>
    /\ Commit

\* lines 554-563: a duration button (disabled while running)
SelectDuration(minutes) ==
    /\ Settled /\ ~running
    /\ selectedDuration' = minutes * SecondsPerMinute
    /\ lastEvent' = "user"
    /\ UNCHANGED <<timerVars, goalSlug, comment, accountVars, goalVars,
                   storage, now, posts, goalFetches>>
    /\ Commit

\* lines 578-591: the duration text input, rendered only when idle
TypeDuration(text) ==
    /\ Settled /\ status = "idle"
    /\ selectedDuration' = TypedMinutes(text) * SecondsPerMinute
    /\ lastEvent' = "user"
    /\ UNCHANGED <<timerVars, goalSlug, comment, accountVars, goalVars,
                   storage, now, posts, goalFetches>>
    /\ Commit

---------------------------------------------------------------------------
(* Goal list: refreshGoals, lines 449-490 *)

\* The synchronous part: validation, then the GET is issued.  The request
\* remembers the goalSlug of the render that issued it (closure, line 482).
RefreshGoals ==
    /\ Settled /\ ~running /\ ~loadingGoals
    /\ IF username = "" \/ authToken = ""
       THEN /\ goalsError' = Some("Username and auth token are required to load goals.")
            /\ UNCHANGED <<loadingGoals, goalFetches>>
       ELSE /\ loadingGoals' = TRUE
            /\ goalsError' = Null
            /\ goalFetches' = Append(goalFetches, [goalSlug |-> goalSlug])
    /\ lastEvent' = "refresh"
    /\ UNCHANGED <<timerVars, sessionVars, accountVars, goals, lastGoalsUpdate,
                   storage, now, posts>>
    /\ Commit

\* lines 470-484 and 487-488: a 2xx response whose body parses to list
GoalsLoaded(i, list) ==
    LET filteredGoals == FilterMinutes(list)
    IN  /\ Settled /\ i \in 1..Len(goalFetches)
        /\ goals' = filteredGoals
        /\ lastGoalsUpdate' = Some(now)
        /\ storage' = SetItem(storage, GOALS_KEY,
                              [goals |-> filteredGoals, updatedAt |-> now])
        /\ goalSlug' = IF goalFetches[i].goalSlug = "" /\ filteredGoals # <<>>
                       THEN filteredGoals[1].slug
                       ELSE goalSlug
        /\ loadingGoals' = FALSE
        /\ goalFetches' = RemoveAt(goalFetches, i)
        /\ lastEvent' = "goalsOk"
        /\ UNCHANGED <<timerVars, comment, selectedDuration, accountVars, goalsError,
                       now, posts>>
        /\ Commit

\* a failure path that drops the goal list it could not replace;
\* C19_RefreshFailureKeepsGoals tells the two apart
GoalsFailedClearing(i, message) ==
    /\ Settled /\ i \in 1..Len(goalFetches)
    /\ goalsError' = Some(message)
    /\ loadingGoals' = FALSE
    /\ goals' = <<>>
    /\ goalFetches' = RemoveAt(goalFetches, i)
    /\ lastEvent' = "goalsFail"
    /\ UNCHANGED <<timerVars, sessionVars, accountVars, lastGoalsUpdate,
                   storage, now, posts>>
    /\ Commit

\* lines 466-468, 470 (JSON.parse throws) and 485-488: a non-2xx response, a
\* network failure or an unparsable body
GoalsFailed(i, message) ==
    /\ Settled /\ i \in 1..Len(goalFetches)
    /\ goalsError' = Some(message)
    /\ loadingGoals' = FALSE
    /\ goalFetches' = RemoveAt(goalFetches, i)
    /\ lastEvent' = "goalsFail"
    /\ UNCHANGED <<timerVars, sessionVars, accountVars, goals, lastGoalsUpdate,
                   storage, now, posts>>
    /\ Commit

GoalsErrorTexts == {"Beeminder goals error"}

---------------------------------------------------------------------------
(* Timer handlers *)

\* lines 285-294 and 330-339: the StoredTimerState record
TimerRecord(st, rem, dl, pa) ==
    [status |-> st, remaining |-> rem, deadline |-> dl, paused |-> pa,
     goalSlug |-> goalSlug, selectedDuration |-> selectedDuration,
     comment |-> comment]

\* startTimer with the deadline taken in seconds instead of milliseconds;
\* C6_StartSetsTimer tells the two apart
startTimerDeadlineInSeconds ==
    IF goalSlug = ""
    THEN /\ status' = "error"
         /\ error' = Some("You must select a goal first.")
         /\ UNCHANGED <<remaining, deadline, paused, flushMessage, storage>>
    ELSE IF username = "" \/ authToken = ""
    THEN /\ status' = "error"
         /\ error' = Some("Username and auth token are required to start.")
         /\ UNCHANGED <<remaining, deadline, paused, flushMessage, storage>>
    ELSE /\ error' = Null
         /\ flushMessage' = Null
         /\ status' = "running"
         /\ paused' = FALSE
         /\ remaining' = Some(selectedDuration)
         /\ deadline' = Some(now + selectedDuration)
         /\ storage' = SetItem(storage, TIMER_STATE_KEY,
                               TimerRecord("running", selectedDuration,
                                           Some(now + selectedDuration), FALSE))

\* startTimer without the username / token check of lines 272-276;
\* C7_StartValidation tells the two apart
startTimerUnchecked ==
    IF goalSlug = ""
    THEN /\ status' = "error"
         /\ error' = Some("You must select a goal first.")
         /\ UNCHANGED <<remaining, deadline, paused, flushMessage, storage>>
    ELSE /\ error' = Null
         /\ flushMessage' = Null
         /\ status' = "running"
         /\ paused' = FALSE
         /\ remaining' = Some(selectedDuration)
         /\ deadline' = Some(now + selectedDuration * MsPerSecond)
         /\ storage' = SetItem(storage, TIMER_STATE_KEY,
                               TimerRecord("running", selectedDuration,
                                           Some(now + selectedDuration * MsPerSecond),
                                           FALSE))

\* togglePause whose resume takes remaining in milliseconds;
\* C8_PauseResumePreservesRemaining tells the two apart
togglePauseResumeInMs ==
    /\ ~IsNull(remaining)
    /\ IF ~paused
       THEN /\ deadline' = Null
            /\ paused' = TRUE
       ELSE /\ deadline' = Some(now + Val(remaining))
            /\ paused' = FALSE
    /\ storage' = SetItem(storage, TIMER_STATE_KEY,
                          TimerRecord(status, Val(remaining), deadline, ~paused))
    /\ UNCHANGED <<status, remaining, error, flushMessage>>

\* lines 266-295
startTimer ==
    IF goalSlug = ""
    THEN /\ status' = "error"
         /\ error' = Some("You must select a goal first.")
         /\ UNCHANGED <<remaining, deadline, paused, flushMessage, storage>>
    ELSE IF username = "" \/ authToken = ""
    THEN /\ status' = "error"
         /\ error' = Some("Username and auth token are required to start.")
         /\ UNCHANGED <<remaining, deadline, paused, flushMessage, storage>>
    ELSE /\ error' = Null
         /\ flushMessage' = Null
         /\ status' = "running"
         /\ paused' = FALSE
         /\ remaining' = Some(selectedDuration)
         /\ deadline' = Some(now + selectedDuration * MsPerSecond)
         /\ storage' = SetItem(storage, TIMER_STATE_KEY,
                               TimerRecord("running", selectedDuration,
                                           Some(now + selectedDuration * MsPerSecond),
                                           FALSE))

\* lines 317-340; the record takes deadline from the render the handler closed over
togglePause ==
    /\ ~IsNull(remaining)
    /\ IF ~paused
       THEN /\ deadline' = Null
            /\ paused' = TRUE
       ELSE /\ deadline' = Some(now + Val(remaining) * MsPerSecond)
            /\ paused' = FALSE
    /\ storage' = SetItem(storage, TIMER_STATE_KEY,
                          TimerRecord(status, Val(remaining), deadline, ~paused))
    /\ UNCHANGED <<status, remaining, error, flushMessage>>

\* lines 598-600: the Start button, rendered when idle
StartButton ==
    /\ Settled /\ status = "idle"
    /\ Len(posts) < MaxInFlight
    /\ startTimer
    /\ lastEvent' = "start"
    /\ UNCHANGED <<sessionVars, accountVars, goalVars, now, posts, goalFetches>>
    /\ Commit

\* lines 604-606: the pause / resume button, rendered when running
PauseButton ==
    /\ Settled /\ running
    /\ togglePause
    /\ lastEvent' = IF paused THEN "resume" ELSE "pause"
    /\ UNCHANGED <<sessionVars, accountVars, goalVars, now, posts, goalFetches>>
    /\ Commit

\* lines 413-434: the space bar, with no input element focused
SpaceKey ==
    /\ Settled
    /\ ~(goalSlug = "" \/ username = "" \/ authToken = "" \/ selectedDuration <= 0)
    /\ IF status = "idle"
       THEN /\ Len(posts) < MaxInFlight
            /\ startTimer
            /\ lastEvent' = "start"
       ELSE /\ (running \/ paused)
            /\ togglePause
            /\ lastEvent' = IF paused THEN "resume" ELSE "pause"
    /\ UNCHANGED <<sessionVars, accountVars, goalVars, now, posts, goalFetches>>
    /\ Commit

\* cancelTimer that empties the whole storage, as localStorage.clear() would;
\* C20_RecordsIndependent tells the two apart
cancelTimerClearingStorage ==
    /\ Settled /\ running
    /\ deadline' = Null
    /\ remaining' = Null
    /\ status' = "idle"
    /\ paused' = FALSE
    /\ error' = Null
    /\ flushMessage' = Null
    /\ storage' = [k \in StorageKeys |-> Null]
    /\ lastEvent' = "cancel"
    /\ UNCHANGED <<sessionVars, accountVars, goalVars, now, posts, goalFetches>>
    /\ Commit

\* lines 297-305, behind the cancel button rendered when running (line 607)
cancelTimer ==
    /\ Settled /\ running
    /\ deadline' = Null
    /\ remaining' = Null
    /\ status' = "idle"
    /\ paused' = FALSE
    /\ error' = Null
    /\ flushMessage' = Null
    /\ storage' = RemoveItem(storage, TIMER_STATE_KEY)
    /\ lastEvent' = "cancel"
    /\ UNCHANGED <<sessionVars, accountVars, goalVars, now, posts, goalFetches>>
    /\ Commit

\* resetAfterFinish without the setError(null) of line 312;
\* C23_CancelAndResetFrame tells the two apart
resetAfterFinishKeepingError ==
    /\ Settled /\ status \in {"finished", "posting", "error"}
    /\ deadline' = Null
    /\ remaining' = Null
    /\ status' = "idle"
    /\ paused' = FALSE
    /\ flushMessage' = Null
    /\ storage' = RemoveItem(storage, TIMER_STATE_KEY)
    /\ lastEvent' = "reset"
    /\ UNCHANGED <<error, sessionVars, accountVars, goalVars, now, posts,
                   goalFetches>>
    /\ Commit

\* lines 307-315, behind the Reset button rendered when finished, posting or
\* error (lines 612-616)
resetAfterFinish ==
    /\ Settled /\ status \in {"finished", "posting", "error"}
    /\ deadline' = Null
    /\ remaining' = Null
    /\ status' = "idle"
    /\ paused' = FALSE
    /\ error' = Null
    /\ flushMessage' = Null
    /\ storage' = RemoveItem(storage, TIMER_STATE_KEY)
    /\ lastEvent' = "reset"
    /\ UNCHANGED <<sessionVars, accountVars, goalVars, now, posts, goalFetches>>
    /\ Commit

\* flushTimer posting the whole session instead of the elapsed part;
\* C11_FlushPostsElapsed tells the two apart
flushTimerWholeSession ==
    /\ Settled /\ running
    /\ IF IsNull(remaining) \/ selectedDuration <= 0 \/ username = ""
            \/ authToken = "" \/ goalSlug = ""
       THEN UNCHANGED <<status, error, posts, flushMessage>>
       ELSE LET elapsed == selectedDuration - Val(remaining)
            IN  IF elapsed <= 0
                THEN /\ flushMessage' = Some("No time elapsed to flush.")
                     /\ UNCHANGED <<status, error, posts>>
                ELSE /\ status' = "posting"
                     /\ error' = Null
                     /\ posts' = Append(posts, [kind |-> "flush",
                                                value |-> MinutesValue(selectedDuration),
                                                goal |-> goalSlug])
                     /\ UNCHANGED flushMessage
    /\ lastEvent' = "flush"
    /\ UNCHANGED <<remaining, deadline, paused, sessionVars, accountVars, goalVars,
                   storage, now, goalFetches>>
    /\ Commit

\* flushTimer reachable in every status, as if the flush button were rendered
\* outside the running-state block; C13_FlushOnlyWhileRunning tells the two apart
flushTimerAnyStatus ==
    /\ Settled
    /\ IF IsNull(remaining) \/ selectedDuration <= 0 \/ username = ""
            \/ authToken = "" \/ goalSlug = ""
       THEN UNCHANGED <<status, error, posts, flushMessage>>
       ELSE LET elapsed == selectedDuration - Val(remaining)
            IN  IF elapsed <= 0
                THEN /\ flushMessage' = Some("No time elapsed to flush.")
                     /\ UNCHANGED <<status, error, posts>>
                ELSE /\ status' = "posting"
                     /\ error' = Null
                     /\ posts' = Append(posts, [kind |-> "flush",
                                                value |-> MinutesValue(elapsed),
                                                goal |-> goalSlug])
                     /\ UNCHANGED flushMessage
    /\ lastEvent' = "flush"
    /\ UNCHANGED <<remaining, deadline, paused, sessionVars, accountVars, goalVars,
                   storage, now, goalFetches>>
    /\ Commit

\* lines 342-375: flushTimer up to its await, behind the flush button rendered
\* when running (line 608).  The first line returns without a trace when a
\* field is missing; the click itself is recorded in lastEvent.
flushTimer ==
    /\ Settled /\ running
    /\ IF IsNull(remaining) \/ selectedDuration <= 0 \/ username = ""
            \/ authToken = "" \/ goalSlug = ""
       THEN UNCHANGED <<status, error, posts, flushMessage>>
       ELSE LET elapsed == selectedDuration - Val(remaining)
            IN  IF elapsed <= 0
                THEN /\ flushMessage' = Some("No time elapsed to flush.")
                     /\ UNCHANGED <<status, error, posts>>
                ELSE /\ status' = "posting"
                     /\ error' = Null
                     /\ posts' = Append(posts, [kind |-> "flush",
                                                value |-> MinutesValue(elapsed),
                                                goal |-> goalSlug])
                     /\ UNCHANGED flushMessage
    /\ lastEvent' = "flush"
    /\ UNCHANGED <<remaining, deadline, paused, sessionVars, accountVars, goalVars,
                   storage, now, goalFetches>>
    /\ Commit

---------------------------------------------------------------------------
(* Clock *)

\* Time passes.  Nothing in the component observes it until a callback runs.
Advance(t) ==
    /\ Settled
    /\ t > now
    /\ now' = t
    /\ UNCHANGED <<timerVars, sessionVars, accountVars, goalVars, storage, posts,
                   goalFetches, postEffectPending, lastEvent, attempts,
                   accepted, firstRemaining, firstIntervalDue>>

\* lines 181-194: the interval callback.  The interval exists while status is
\* running and deadline is set; the browser may run it late.
Tick ==
    /\ Settled /\ running /\ ~IsNull(deadline)
    /\ remaining' = Some(SecsLeft(Val(deadline), now))
    /\ lastEvent' = "tick"
    /\ UNCHANGED <<status, deadline, paused, error, flushMessage, sessionVars,
                   accountVars, goalVars, storage, now, posts, goalFetches>>
    /\ Commit

---------------------------------------------------------------------------
(* Datapoint posts *)

\* the effect without the field check of lines 200-204;
\* C22_ZeroWithMissingField tells the two apart
PostOnZeroEffectUnchecked ==
    /\ postEffectPending
    /\ IF (IsNull(remaining) \/ Val(remaining) # 0) \/ status = "posting"
             \/ status = "finished"
       THEN UNCHANGED <<status, error, posts>>
       ELSE /\ status' = "posting"
            /\ error' = Null
            /\ posts' = Append(posts, [kind |-> "complete",
                                       value |-> MinutesValue(selectedDuration),
                                       goal |-> goalSlug])
    /\ UNCHANGED <<remaining, deadline, paused, flushMessage, sessionVars,
                   accountVars, goalVars, storage, now, goalFetches, lastEvent>>
    /\ Commit

\* lines 197-264: the effect, up to the await of fetch in postToBeeminder
PostOnZeroEffect ==
    /\ postEffectPending
    /\ IF (IsNull(remaining) \/ Val(remaining) # 0) \/ status = "posting"
             \/ status = "finished"
       THEN UNCHANGED <<status, error, posts>>
       ELSE IF username = "" \/ authToken = "" \/ goalSlug = ""
       THEN /\ status' = "error"
            /\ error' = Some("Username, auth token and goal slug are required.")
            /\ UNCHANGED posts
       ELSE /\ status' = "posting"
            /\ error' = Null
            /\ posts' = Append(posts, [kind |-> "complete",
                                       value |-> MinutesValue(selectedDuration),
                                       goal |-> goalSlug])
    /\ UNCHANGED <<remaining, deadline, paused, flushMessage, sessionVars,
                   accountVars, goalVars, storage, now, goalFetches, lastEvent>>
    /\ Commit

\* lines 232-256 (completion) and 377-405 (flush): a 2xx response arrives
PostSucceeded(i) ==
    /\ Settled /\ i \in 1..Len(posts)
    /\ IF posts[i].kind = "complete"
       THEN /\ status' = "finished"
            /\ UNCHANGED <<remaining, deadline, paused, flushMessage>>
       ELSE /\ deadline' = Null
            /\ remaining' = Null
            /\ status' = "idle"
            /\ paused' = FALSE
            /\ flushMessage' = Some("Logged minutes to Beeminder.")
    /\ storage' = RemoveItem(storage, TIMER_STATE_KEY)
    /\ posts' = RemoveAt(posts, i)
    /\ lastEvent' = "postOk"
    /\ UNCHANGED <<error, sessionVars, accountVars, goalVars, now, goalFetches>>
    /\ Commit

\* lines 234-236, 257-260 (completion) and 379-381, 406-409 (flush): a non-2xx
\* response or a network failure
PostFailed(i) ==
    /\ Settled /\ i \in 1..Len(posts)
    /\ status' = "error"
    /\ error' = Some("Beeminder error")
    /\ lastEvent' = "postFail"
    /\ posts' = RemoveAt(posts, i)
    /\ UNCHANGED <<remaining, deadline, paused, flushMessage, sessionVars,
                   accountVars, goalVars, storage, now, goalFetches>>
    /\ Commit

---------------------------------------------------------------------------
(* Storage outside the component *)

\* localStorage is shared with the rest of the origin and with the user's
\* developer tools: the text under a key can be cut short or overwritten, after
\* which JSON.parse throws on it (the catch blocks of lines 117, 128, 144).
Corrupt(key) ==
    /\ Settled /\ key \in StorageKeys
    /\ ~IsNull(storage[key]) /\ Val(storage[key]).wellFormed
    /\ storage' = [storage EXCEPT
                     ![key] = Some([wellFormed |-> FALSE, obj |-> Val(storage[key]).obj])]
    /\ lastEvent' = "corrupt"
    /\ UNCHANGED <<timerVars, sessionVars, accountVars, goalVars, now, posts,
                   goalFetches>>
    /\ Commit

---------------------------------------------------------------------------
Next ==
    \/ \E v \in Usernames : SetUsername(v)
    \/ \E v \in Tokens : SetAuthToken(v)
    \/ SaveSettings
    \/ EditSettings
    \/ \E v \in {""} \cup Slugs(goals) : SelectGoal(v)
    \/ \E v \in Comments : SetComment(v)
    \/ \E m \in DurationButtons : SelectDuration(m)
    \/ \E text \in TypedTexts : TypeDuration(text)
    \/ RefreshGoals
    \/ \E i \in 1..Len(goalFetches) : \E list \in ServerGoalLists : GoalsLoaded(i, list)
    \/ \E i \in 1..Len(goalFetches) : \E m \in GoalsErrorTexts : GoalsFailed(i, m)
    \/ StartButton
    \/ PauseButton
    \/ SpaceKey
    \/ cancelTimer
    \/ resetAfterFinish
    \/ flushTimer
    \/ \E t \in ClockReadings : Advance(t)
    \/ Tick
    \/ PostOnZeroEffect
    \/ \E i \in 1..Len(posts) : PostSucceeded(i)
    \/ \E i \in 1..Len(posts) : PostFailed(i)
    \/ \E key \in StorageKeys : Corrupt(key)
    \/ Reload

Spec == Init /\ [][Next]_vars

(* The timer under a user who types the credentials once, saves complete   *)
(* settings and loads one goal list when the page is first opened.         *)
NextTimer ==
    \/ \E v \in Usernames \ {""} : SetUsername(v)
    \/ \E v \in Tokens \ {""} : SetAuthToken(v)
    \/ (username # "" /\ authToken # "" /\ SaveSettings)
    \/ \E text \in TypedTexts : TypeDuration(text)
    \/ (now = 0 /\ RefreshGoals)
    \/ \E i \in 1..Len(goalFetches) : GoalsLoaded(i, <<GoalRun, GoalRead>>)
    \/ StartButton
    \/ PauseButton
    \/ SpaceKey
    \/ cancelTimer
    \/ resetAfterFinish
    \/ flushTimer
    \/ \E t \in ClockReadings : Advance(t)
    \/ Tick
    \/ PostOnZeroEffect
    \/ \E i \in 1..Len(posts) : PostSucceeded(i)
    \/ \E i \in 1..Len(posts) : PostFailed(i)
    \/ Reload

SpecTimer == Init /\ [][NextTimer]_vars

(* The three records under a user who edits the settings and the goal at   *)
(* will, a server that may fail, and a storage that may be damaged; the    *)
(* clock is read one minute into a session and at the end of thirty.       *)
StorageClockReadings == {60 * MsPerSecond, THIRTY_MINUTES * MsPerSecond}

NextStorage ==
    \/ \E v \in Usernames \ {""} : SetUsername(v)
    \/ \E v \in Tokens \ {""} : SetAuthToken(v)
    \/ (username # "" /\ authToken # "" /\ SaveSettings)
    \/ EditSettings
    \/ \E v \in {""} \cup Slugs(goals) : SelectGoal(v)
    \/ (now = 0 /\ RefreshGoals)
    \/ \E i \in 1..Len(goalFetches) : GoalsLoaded(i, <<GoalRun, GoalRead>>)
    \/ \E i \in 1..Len(goalFetches) : \E m \in GoalsErrorTexts : GoalsFailed(i, m)
    \/ StartButton
    \/ PauseButton
    \/ cancelTimer
    \/ resetAfterFinish
    \/ flushTimer
    \/ \E t \in StorageClockReadings : Advance(t)
    \/ Tick
    \/ PostOnZeroEffect
    \/ \E i \in 1..Len(posts) : PostSucceeded(i)
    \/ \E i \in 1..Len(posts) : PostFailed(i)
    \/ \E key \in StorageKeys : Corrupt(key)
    \/ Reload

SpecStorage == Init /\ [][NextStorage]_vars

\* The session inputs and what can reach them: the goal select, the comment
\* and duration inputs, refreshes answered with either list of the service,
\* and one timer from start to its answer.  No reload and no pause.
NextSession ==
    \/ \E v \in Usernames \ {""} : SetUsername(v)
    \/ \E v \in Tokens \ {""} : SetAuthToken(v)
    \/ \E v \in {""} \cup Slugs(goals) : SelectGoal(v)
    \/ \E v \in Comments : SetComment(v)
    \/ \E minutes \in DurationButtons : SelectDuration(minutes)
    \/ TypeDuration(<<"1", ":", "0", "0">>)
    \/ (username # "" /\ authToken # "" /\ RefreshGoals)
    \/ \E i \in 1..Len(goalFetches) : \E list \in ServerGoalLists : GoalsLoaded(i, list)
    \/ (posts = <<>> /\ StartButton)
    \/ cancelTimer \/ resetAfterFinish
    \/ \E t \in StorageClockReadings : Advance(t)
    \/ Tick \/ PostOnZeroEffect
    \/ \E i \in 1..Len(posts) : PostSucceeded(i)
    \/ \E i \in 1..Len(posts) : PostFailed(i)

SpecSession == Init /\ [][NextSession]_vars

\* Timers that are started and left alone: no pause, no cancel, no flush, no
\* reload.  The clock is read at the deadlines of a timer of thirty minutes
\* started at 0 and of one started when the first is over; a timer is not
\* started later than that, so that its deadline is an instant the clock
\* reaches.
LiveClockReadings == {THIRTY_MINUTES * MsPerSecond, 2 * THIRTY_MINUTES * MsPerSecond}

NextLive ==
    \/ \E v \in Usernames \ {""} : SetUsername(v)
    \/ \E v \in Tokens \ {""} : SetAuthToken(v)
    \/ \E v \in Comments : SetComment(v)
    \/ (username # "" /\ authToken # "" /\ RefreshGoals)
    \/ \E i \in 1..Len(goalFetches) : \E list \in ServerGoalLists : GoalsLoaded(i, list)
    \/ (now <= THIRTY_MINUTES * MsPerSecond /\ StartButton)
    \/ resetAfterFinish
    \/ \E t \in LiveClockReadings : Advance(t)
    \/ Tick \/ PostOnZeroEffect
    \/ \E i \in 1..Len(posts) : PostSucceeded(i)
    \/ \E i \in 1..Len(posts) : PostFailed(i)

\* React runs a scheduled effect; time passes; the browser keeps calling the
\* interval callback while the interval exists (lines 184-193); the remote
\* answers every request, one way or the other.
SpecLive ==
    /\ Init /\ [][NextLive]_vars
    /\ WF_vars(PostOnZeroEffect)
    /\ SF_vars(\E t \in LiveClockReadings : Advance(t))
    /\ SF_vars(Tick)
    /\ SF_vars(\E i \in 1..Len(posts) : PostSucceeded(i) \/ PostFailed(i))

---------------------------------------------------------------------------
(* The two countdowns side by side: the first App variant (App.tsx lines   *)
(* 35-409) counts remaining down by one each second, the later variants     *)
(* (App.tsx lines 448-874 and part_000) recompute it from the deadline.     *)

\* App.tsx lines 185-196 next to startTimer: one click starts both.  The
\* first variant always runs THIRTY_MINUTES; its countdown effect (lines
\* 115-127) arms an interval of one second.
firstStartTimer ==
    /\ Settled /\ status = "idle"
    /\ username # "" /\ authToken # "" /\ goalSlug # ""
    /\ startTimer
    /\ lastEvent' = "start"
    /\ firstRemaining' = Some(THIRTY_MINUTES)
    /\ firstIntervalDue' = Some(now + MsPerSecond)
    /\ UNCHANGED <<sessionVars, accountVars, goalVars, now, posts, goalFetches>>
    /\ CommitEffects

\* the interval callback counting down by two;
\* C32_CountdownsAgree tells the two apart
firstTickByTwo ==
    /\ firstIntervalDue = Some(now) /\ ~IsNull(firstRemaining)
    /\ LET prev == Val(firstRemaining)
           next == IF prev <= 1 THEN 0 ELSE prev - 2
       IN  /\ firstRemaining' = Some(next)
           /\ firstIntervalDue' = IF next <= 0 THEN Null ELSE Some(now + MsPerSecond)
    /\ UNCHANGED <<timerVars, sessionVars, accountVars, goalVars, storage, now,
                   posts, goalFetches, postEffectPending, lastEvent, attempts,
                   accepted>>

\* App.tsx lines 118-124: the interval callback; lines 115-116 and 126-127:
\* remaining has changed, so the effect drops the interval and, unless
\* remaining is 0, arms a new one
firstTick ==
    /\ firstIntervalDue = Some(now) /\ ~IsNull(firstRemaining)
    /\ LET prev == Val(firstRemaining)
           next == IF prev <= 1 THEN 0 ELSE prev - 1
       IN  /\ firstRemaining' = Some(next)
           /\ firstIntervalDue' = IF next <= 0 THEN Null ELSE Some(now + MsPerSecond)
    /\ UNCHANGED <<timerVars, sessionVars, accountVars, goalVars, storage, now,
                   posts, goalFetches, postEffectPending, lastEvent, attempts,
                   accepted>>

\* What the interval callback of lines 184-192 computes at this instant is
\* what remaining holds: the callback due now has run.
TickDelivered ==
    (running /\ ~IsNull(deadline)) => remaining = Some(SecsLeft(Val(deadline), now))

\* Punctual delivery: the clock moves on by the period of the later interval
\* once the callbacks due at this instant have run.  Before the start it
\* moves a few periods, so that timers start at different instants; it
\* stops one period after the deadline.
PunctualClock ==
    /\ TickDelivered /\ firstIntervalDue # Some(now)
    /\ IF IsNull(deadline) THEN status = "idle" /\ now < 2 * TickMs
                           ELSE now <= Val(deadline)
    /\ Advance(now + TickMs)

NextCountdown ==
    \/ \E v \in Usernames \ {""} : SetUsername(v)
    \/ \E v \in Tokens \ {""} : SetAuthToken(v)
    \/ (now = 0 /\ username # "" /\ authToken # "" /\ RefreshGoals)
    \/ \E i \in 1..Len(goalFetches) : (~running /\ GoalsLoaded(i, <<GoalRun, GoalRead>>))
    \/ firstStartTimer
    \/ PunctualClock
    \/ Tick \/ firstTick \/ PostOnZeroEffect
    \/ \E i \in 1..Len(posts) : PostSucceeded(i)

SpecCountdown == Init /\ [][NextCountdown]_vars

---------------------------------------------------------------------------
(* Properties *)

CompletionPostIssued ==
    Len(posts') = Len(posts) + 1 /\ posts'[Len(posts')].kind = "complete"

\* C1: after a datapoint post has failed and status is error, no further
\* datapoint request is issued until the user acts: a step that follows the
\* failure without a user event (the effect, the clock) adds no request.
C1_NoRetryAfterFailure ==
    [][(lastEvent = "postFail" /\ lastEvent' = "postFail" /\ status = "error")
          => Len(posts') <= Len(posts)]_vars

\* C2: when remaining reaches 0 with username, token and goal present, exactly
\* one post attempt is made, carrying selectedDuration / 60 minutes, and status
\* goes to posting and, on a successful response to it, to finished.
C2_ExactlyOnePostOnZero ==
    [][/\ (postEffectPending /\ status = "running" /\ remaining = Some(0)
             /\ username # "" /\ authToken # "" /\ goalSlug # "")
          => (/\ CompletionPostIssued
              /\ 60 * posts'[Len(posts')].value.whole = selectedDuration
              /\ posts'[Len(posts')].value.sixtieths = 0
              /\ status' = "posting")
       /\ attempts' <= 1
       /\ (lastEvent' = "postOk" /\ Len(posts') < Len(posts) /\ status = "posting"
             /\ remaining = Some(0))
          => status' = "finished"]_vars

\* C3: once the user has reset to idle with a post still in flight, the
\* arrival of that post's response changes neither status, remaining,
\* deadline, paused nor the stored timer record.
C3_LateResponseIgnored ==
    [][(status = "idle" /\ Len(posts') < Len(posts)
          /\ lastEvent' \in {"postOk", "postFail"})
          => UNCHANGED <<status, remaining, deadline, paused,
                         storage[TIMER_STATE_KEY]>>]_vars

\* C4: deadline is set exactly when status is running and the timer is not
\* paused.
C4_DeadlineIffRunningUnpaused ==
    ~IsNull(deadline) <=> (status = "running" /\ ~paused)

\* C5: remaining is null or an integer >= 0.
C5_RemainingNonNegative ==
    IsNull(remaining) \/ Val(remaining) >= 0

\* C6: a start from idle with goal, username and token non-empty and a
\* selected duration d > 0 gives status running, paused false, remaining = d
\* and deadline = now + 1000 * d, and that stands until the first tick.
C6_StartSetsTimer ==
    [][/\ (status = "idle" /\ lastEvent' = "start" /\ goalSlug # ""
             /\ username # "" /\ authToken # "" /\ selectedDuration > 0)
          => (/\ status' = "running"
              /\ paused' = FALSE
              /\ remaining' = Some(selectedDuration)
              /\ deadline' = Some(now + 1000 * selectedDuration))
       /\ (lastEvent = "start" /\ lastEvent' = "start" /\ selectedDuration > 0)
          => UNCHANGED <<status, paused, remaining, deadline>>]_vars

C6_Started ==
    /\ lastEvent = "start" /\ status = "running" /\ ~paused
    /\ selectedDuration > 0
    /\ remaining = Some(selectedDuration)
    /\ deadline = Some(now + 1000 * selectedDuration)

\* C7: a start with the goal, the username or the token empty sets status to
\* error with a message, issues no request, writes no timer record and leaves
\* remaining and deadline null; nothing follows from it without the user.
C7_StartValidation ==
    [][/\ (status = "idle" /\ lastEvent' = "start"
             /\ (goalSlug = "" \/ username = "" \/ authToken = ""))
          => (/\ status' = "error"
              /\ ~IsNull(error')
              /\ posts' = posts /\ goalFetches' = goalFetches
              /\ storage' = storage
              /\ IsNull(storage'[TIMER_STATE_KEY])
              /\ IsNull(remaining') /\ IsNull(deadline'))
       /\ (lastEvent = "start" /\ lastEvent' = "start" /\ status = "error")
          => UNCHANGED <<status, error, remaining, deadline, posts, goalFetches,
                         storage>>]_vars

C7_StartRejected ==
    /\ lastEvent = "start" /\ status = "error" /\ ~IsNull(error)
    /\ (goalSlug = "" \/ username = "" \/ authToken = "")
    /\ IsNull(remaining) /\ IsNull(deadline) /\ posts = <<>>
    /\ IsNull(storage[TIMER_STATE_KEY])

\* the wall-clock time of the latest resume, while nothing but the clock has
\* moved since: resume set deadline = now + 1000 * remaining
ResumedAt == Val(deadline) - 1000 * Val(remaining)

\* C8 as stated: pause leaves remaining unchanged and sets deadline to null;
\* resume sets deadline = now + 1000 * remaining and leaves remaining
\* unchanged; the first tick after resume leaves remaining unchanged however
\* late it fires (read up to the floor at 0 that every tick applies).
C8_AsStated ==
    [][/\ (lastEvent' = "pause" /\ status = "running")
          => (remaining' = remaining /\ IsNull(deadline'))
       /\ (lastEvent' = "resume" /\ lastEvent # "resume" /\ status = "running")
          => (remaining' = remaining
              /\ deadline' = Some(now + 1000 * Val(remaining)))
       /\ (lastEvent = "resume" /\ lastEvent' = "tick")
          => remaining' = Some(Max(0, Val(remaining)))]_vars

\* C8: pause leaves remaining unchanged and sets deadline to null; while the
\* timer stays paused with a null deadline, no step of the same page session
\* changes remaining, whatever the clock reads; resume sets
\* deadline = now + 1000 * remaining and leaves remaining unchanged; the first
\* tick after resume leaves remaining at max(0, its value at the pause) when
\* it fires at most 500 ms after the resume.
C8_PauseResumePreservesRemaining ==
    [][/\ (lastEvent' = "pause" /\ status = "running")
          => (remaining' = remaining /\ IsNull(deadline'))
       /\ (status = "running" /\ paused /\ IsNull(deadline)
             /\ status' = "running" /\ paused' /\ lastEvent' # "mount")
          => remaining' = remaining
       /\ (lastEvent' = "resume" /\ lastEvent # "resume" /\ status = "running")
          => (remaining' = remaining
              /\ deadline' = Some(now + 1000 * Val(remaining)))
       /\ (lastEvent = "resume" /\ lastEvent' = "tick"
             /\ now - ResumedAt <= 500)
          => remaining' = Some(Max(0, Val(remaining)))]_vars

\* a resumed timer (the record written by the resume is still in storage: not
\* paused, with the null deadline of the paused render) whose first tick fired
\* half a second after the resume and left remaining at its value at the pause
C8_TickedAfterResume ==
    /\ lastEvent = "tick" /\ status = "running" /\ ~paused
    /\ ~IsNull(deadline) /\ ~IsNull(remaining) /\ Val(remaining) > 0
    /\ ~IsNull(StoredObject(storage, TIMER_STATE_KEY))
    /\ Val(StoredObject(storage, TIMER_STATE_KEY)).paused = FALSE
    /\ IsNull(Val(StoredObject(storage, TIMER_STATE_KEY)).deadline)
    /\ Val(StoredObject(storage, TIMER_STATE_KEY)).remaining = Val(remaining)
    /\ now = ResumedAt + 500
    /\ ResumedAt > 0

\* C9: a tick sets remaining to max(0, round((deadline - now) / 1000)), a
\* function of deadline and the clock alone: 0 when fewer than 500 ms are left
\* (in particular when now >= deadline), else the integer r with
\* 1000 r - 500 <= deadline - now < 1000 r + 500.
C9_TickRecomputes ==
    [][(~postEffectPending /\ lastEvent' = "tick" /\ now' = now)
          => /\ ~IsNull(deadline) /\ deadline' = deadline
             /\ ~IsNull(remaining') /\ Val(remaining') >= 0
             /\ (Val(deadline) - now < 500 => Val(remaining') = 0)
             /\ (Val(deadline) - now >= 500
                   => /\ 1000 * Val(remaining') - 500 <= Val(deadline) - now
                      /\ Val(deadline) - now < 1000 * Val(remaining') + 500)]_vars

C9_TickedPastDeadline ==
    /\ lastEvent = "tick" /\ ~IsNull(deadline) /\ now >= Val(deadline)
    /\ selectedDuration > 0
    /\ remaining = Some(0)

\* C10: a tick changes remaining only while status is running and the timer
\* is not paused: it leaves remaining alone when paused, when remaining is
\* already 0 and in every other status, also in a state restored from storage.
C10_TicksOnlyWhileRunningUnpaused ==
    [][(~postEffectPending /\ lastEvent' = "tick" /\ now' = now
          /\ (status # "running" \/ paused \/ remaining = Some(0)))
          => remaining' = remaining]_vars

\* a click on the flush button: the one step that sets lastEvent to "flush"
\* on a settled render without moving the clock
FlushClicked == ~postEffectPending /\ lastEvent' = "flush" /\ now' = now

\* the response that arrives in this step answers a flush post
FlushAnswered ==
    /\ Len(posts') < Len(posts)
    /\ \A i \in 1..Len(posts) : posts' = RemoveAt(posts, i) => posts[i].kind = "flush"

\* C11 as stated: every flush while running with elapsed =
\* selectedDuration - remaining > 0 issues exactly one post of elapsed / 60
\* minutes, whatever the username, token and goal are.
C11_AsStated ==
    [][(FlushClicked /\ status = "running" /\ ~IsNull(remaining)
          /\ selectedDuration - Val(remaining) > 0)
          => (/\ Len(posts') = Len(posts) + 1
              /\ posts'[Len(posts')].kind = "flush")]_vars

\* C11: a flush while running (paused or not) with username, token and goal
\* non-empty and elapsed = selectedDuration - remaining > 0 issues exactly one
\* post, whose value is elapsed / 60 minutes, and sets status to posting;
\* nothing further is posted until the next event; a successful response to a
\* flush post sets status idle, remaining null, deadline null, paused false
\* and removes the timer record.
C11_FlushPostsElapsed ==
    [][/\ (FlushClicked /\ status = "running" /\ ~IsNull(remaining)
             /\ selectedDuration - Val(remaining) > 0
             /\ username # "" /\ authToken # "" /\ goalSlug # "")
          => (/\ Len(posts') = Len(posts) + 1
              /\ SubSeq(posts', 1, Len(posts)) = posts
              /\ posts'[Len(posts')].kind = "flush"
              /\ posts'[Len(posts')].value.sixtieths \in 0..59
              /\ 60 * posts'[Len(posts')].value.whole
                    + posts'[Len(posts')].value.sixtieths
                 = selectedDuration - Val(remaining)
              /\ status' = "posting")
       /\ (lastEvent = "flush" /\ lastEvent' = "flush" /\ ~FlushClicked)
          => posts' = posts
       /\ (lastEvent' = "postOk" /\ FlushAnswered)
          => (/\ status' = "idle" /\ IsNull(remaining') /\ IsNull(deadline')
              /\ paused' = FALSE
              /\ IsNull(storage'[TIMER_STATE_KEY]))]_vars

\* a flush post has been answered with success: the
\* timer is idle and cleared, the record gone, the logged message shown
C11_FlushLogged ==
    /\ lastEvent = "postOk" /\ status = "idle"
    /\ IsNull(remaining) /\ IsNull(deadline) /\ ~paused
    /\ IsNull(storage[TIMER_STATE_KEY])
    /\ flushMessage = Some("Logged minutes to Beeminder.")

\* C12: a flush with elapsed = selectedDuration - remaining = 0 issues no
\* request, sets the nothing-to-flush message and leaves status, remaining,
\* deadline, paused and the timer record unchanged (stated here for a
\* positive selected duration).
C12_NothingToFlush ==
    [][(FlushClicked /\ status = "running" /\ ~IsNull(remaining)
          /\ selectedDuration > 0
          /\ selectedDuration - Val(remaining) = 0)
          => (/\ posts' = posts
              /\ flushMessage' = Some("No time elapsed to flush.")
              /\ UNCHANGED <<status, remaining, deadline, paused,
                             storage[TIMER_STATE_KEY]>>)]_vars

FlushPostIssued ==
    Len(posts') > Len(posts) /\ posts'[Len(posts')].kind = "flush"

\* C13 as stated: a flush request is issued only when status is running, and
\* never while another post is in flight.
C13_AsStated ==
    [][FlushPostIssued => (status = "running" /\ posts = <<>>)]_vars

\* C13: a flush request is issued only by a click on the flush button while
\* status is running (paused or not), and it moves status to posting: none is
\* issued from idle, posting, finished or error.  (Posts of an earlier
\* session that the user reset may still be in flight at that moment.)
C13_FlushOnlyWhileRunning ==
    [][FlushPostIssued
          => (/\ status = "running" /\ FlushClicked
              /\ Len(posts') = Len(posts) + 1
              /\ status' = "posting")]_vars

\* two flush posts in flight: the first session was flushed and reset while
\* posting, the second was started and flushed before the first was answered
C13_TwoFlushesInFlight ==
    /\ Len(posts) = 2 /\ posts[1].kind = "flush" /\ posts[2].kind = "flush"
    /\ status = "posting" /\ lastEvent = "flush"

\* C14: starting from empty storage, whenever status is idle or finished no
\* timer record is present in storage.
C14_NoRecordWhenIdleOrFinished ==
    status \in {"idle", "finished"} => IsNull(storage[TIMER_STATE_KEY])

\* a start that passed validation, a pause or a resume happens in this step
StartedPausedOrResumed ==
    /\ ~postEffectPending /\ now' = now
    /\ \/ lastEvent' = "start" /\ status' = "running"
       \/ lastEvent' \in {"pause", "resume"}

\* C15: immediately after each start, pause and resume the timer record in
\* storage has status, remaining, deadline and paused equal to the in-memory
\* timer state that results from the operation.
C15_RecordMatchesMemory ==
    [][StartedPausedOrResumed
          => (/\ ~IsNull(StoredObject(storage', TIMER_STATE_KEY))
              /\ Val(StoredObject(storage', TIMER_STATE_KEY)).status = status'
              /\ Some(Val(StoredObject(storage', TIMER_STATE_KEY)).remaining)
                    = remaining'
              /\ Val(StoredObject(storage', TIMER_STATE_KEY)).deadline = deadline'
              /\ Val(StoredObject(storage', TIMER_STATE_KEY)).paused = paused')]_vars

\* C16 as stated: a reload that follows a save of the settings restores
\* username, token and goal identifier exactly as they were saved, also when
\* a timer record is in storage.
C16_AsStated ==
    [][(lastEvent = "save" /\ lastEvent' = "mount")
          => (/\ username' = username
              /\ authToken' = authToken
              /\ goalSlug' = goalSlug)]_vars

\* C16: a reload that follows a save of the settings restores username and
\* token exactly as saved, in every state in which save can be invoked; it
\* restores the saved goal identifier when storage holds no readable timer
\* record, and the goal identifier of the timer record when it holds one.
C16_SettingsRestored ==
    [][(lastEvent = "save" /\ lastEvent' = "mount")
          => (/\ username' = username
              /\ authToken' = authToken
              /\ goalSlug' = IF IsNull(StoredObject(storage, TIMER_STATE_KEY))
                             THEN goalSlug
                             ELSE Val(StoredObject(storage, TIMER_STATE_KEY)).goalSlug
              /\ storage' = storage)]_vars

\* a page loaded from saved settings next to the record of a running timer:
\* username, token and goal are those of the settings record
C16_ReloadedFromSettings ==
    /\ lastEvent = "mount" /\ hasStoredSettings
    /\ ~IsNull(StoredObject(storage, SETTINGS_KEY))
    /\ ~IsNull(StoredObject(storage, TIMER_STATE_KEY))
    /\ username # "" /\ authToken # "" /\ goalSlug # ""
    /\ Val(StoredObject(storage, SETTINGS_KEY))
          = [username |-> username, authToken |-> authToken, goalSlug |-> goalSlug]

\* C17: whenever a completion post or a flush post fails, status becomes
\* error and the error message becomes non-null; and in every reachable state
\* status = error implies that the error message is non-null.
C17_ErrorHasMessage ==
    [][/\ (lastEvent' = "postFail" /\ Len(posts') < Len(posts))
          => (status' = "error" /\ ~IsNull(error'))
       /\ status' = "error" => ~IsNull(error')]_vars

\* the text under key does not parse
Malformed(key) == ~IsNull(storage[key]) /\ ~Val(storage[key]).wellFormed

\* the page is loaded in this step
PageLoaded == ~postEffectPending /\ lastEvent' = "mount" /\ now' = now

\* C18: at startup a record that does not parse is ignored: what it would
\* populate keeps its defaults (empty username and token, settings form
\* shown; empty goal list, no refresh time; idle timer with remaining and
\* deadline null), the records that do parse are loaded, storage is left as
\* it is and no error is shown.
C18_MalformedRecordIgnored ==
    [][(PageLoaded /\ \E key \in StorageKeys : Malformed(key))
          => /\ Malformed(SETTINGS_KEY)
                => (/\ username' = "" /\ authToken' = ""
                    /\ ~hasStoredSettings' /\ showSettingsForm'
                    /\ IsNull(StoredObject(storage, TIMER_STATE_KEY))
                          => goalSlug' = "")
             /\ Malformed(GOALS_KEY)
                => (goals' = <<>> /\ IsNull(lastGoalsUpdate'))
             /\ Malformed(TIMER_STATE_KEY)
                => (/\ status' = "idle" /\ IsNull(remaining') /\ IsNull(deadline')
                    /\ ~paused' /\ selectedDuration' = THIRTY_MINUTES
                    /\ comment' = "")
             /\ ~IsNull(StoredObject(storage, SETTINGS_KEY))
                => (/\ username' = Val(StoredObject(storage, SETTINGS_KEY)).username
                    /\ authToken' = Val(StoredObject(storage, SETTINGS_KEY)).authToken)
             /\ ~IsNull(StoredObject(storage, GOALS_KEY))
                => (/\ goals' = Val(StoredObject(storage, GOALS_KEY)).goals
                    /\ lastGoalsUpdate'
                          = Some(Val(StoredObject(storage, GOALS_KEY)).updatedAt))
             /\ ~IsNull(StoredObject(storage, TIMER_STATE_KEY))
                => (/\ status' = Val(StoredObject(storage, TIMER_STATE_KEY)).status
                    /\ remaining'
                          = Some(Val(StoredObject(storage, TIMER_STATE_KEY)).remaining)
                    /\ goalSlug' = Val(StoredObject(storage, TIMER_STATE_KEY)).goalSlug)
             /\ IsNull(error') /\ IsNull(goalsError')
             /\ storage' = storage]_vars

\* a page loaded over a damaged settings record: the account fields are
\* empty, the goal list and the running timer came back from their records
C18_LoadedPastDamagedSettings ==
    /\ lastEvent = "mount" /\ Malformed(SETTINGS_KEY)
    /\ username = "" /\ authToken = "" /\ ~hasStoredSettings
    /\ ~IsNull(StoredObject(storage, GOALS_KEY)) /\ goals # <<>>
    /\ ~IsNull(StoredObject(storage, TIMER_STATE_KEY)) /\ status = "running"
    /\ IsNull(error)

\* C19: a refresh of the goals that fails, by an empty username or token (no
\* request is issued then), by a non-2xx response or by a body that does not
\* parse, sets the goals error message and leaves the goal list, the
\* last-refreshed time, the goal-cache record and the selected goal unchanged,
\* with loadingGoals false afterwards.
C19_RefreshFailureKeepsGoals ==
    [][/\ (~postEffectPending /\ lastEvent' = "refresh" /\ now' = now
             /\ (username = "" \/ authToken = ""))
          => (/\ ~IsNull(goalsError')
              /\ goalFetches' = goalFetches
              /\ loadingGoals' = FALSE
              /\ UNCHANGED <<goals, lastGoalsUpdate, storage, goalSlug>>)
       /\ (lastEvent' = "goalsFail" /\ Len(goalFetches') < Len(goalFetches))
          => (/\ ~IsNull(goalsError')
              /\ loadingGoals' = FALSE
              /\ UNCHANGED <<goals, lastGoalsUpdate, storage, goalSlug>>)]_vars

\* a second refresh has failed: the message is shown and the list, the time
\* and the record of the first refresh are still there
C19_FailedRefreshOverCache ==
    /\ lastEvent = "goalsFail" /\ ~IsNull(goalsError) /\ ~loadingGoals
    /\ goals # <<>> /\ ~IsNull(lastGoalsUpdate)
    /\ ~IsNull(StoredObject(storage, GOALS_KEY))
    /\ Val(StoredObject(storage, GOALS_KEY)).goals = goals

\* C20: the three stored records are independent.  The component changes the
\* settings record only in a save, the goal-cache record only when a refresh
\* has succeeded, and the timer record only in a start, a pause, a resume, a
\* cancel, a reset and the success of a completion or flush post; and a step
\* that changes one record leaves the other two as they are.  (Damage done
\* to storage from outside the component is not a step of the component.)
C20_RecordsIndependent ==
    [][lastEvent' # "corrupt"
          => /\ storage'[SETTINGS_KEY] # storage[SETTINGS_KEY]
                => (/\ lastEvent' = "save"
                    /\ storage'[GOALS_KEY] = storage[GOALS_KEY]
                    /\ storage'[TIMER_STATE_KEY] = storage[TIMER_STATE_KEY])
             /\ storage'[GOALS_KEY] # storage[GOALS_KEY]
                => (/\ lastEvent' = "goalsOk"
                    /\ storage'[SETTINGS_KEY] = storage[SETTINGS_KEY]
                    /\ storage'[TIMER_STATE_KEY] = storage[TIMER_STATE_KEY])
             /\ storage'[TIMER_STATE_KEY] # storage[TIMER_STATE_KEY]
                => (/\ lastEvent' \in {"start", "pause", "resume", "cancel", "reset",
                                      "postOk"}
                    /\ storage'[SETTINGS_KEY] = storage[SETTINGS_KEY]
                    /\ storage'[GOALS_KEY] = storage[GOALS_KEY])]_vars

\* settings have just been saved next to a goal cache and the record of a
\* timer, both readable
C20_SavedBesideOtherRecords ==
    /\ lastEvent = "save"
    /\ ~IsNull(StoredObject(storage, SETTINGS_KEY))
    /\ ~IsNull(StoredObject(storage, GOALS_KEY))
    /\ ~IsNull(StoredObject(storage, TIMER_STATE_KEY))
    /\ Val(StoredObject(storage, GOALS_KEY)).goals = goals
    /\ Val(StoredObject(storage, TIMER_STATE_KEY)).status = "running"

\* C21: within a page session every change of status is one of: idle to
\* running, idle to error, running to posting, running to error, posting to
\* finished, posting to error, or non-idle to idle; so finished is entered
\* only from posting and posting only from running.
C21_StatusTransitions ==
    [][(status' # status /\ lastEvent' # "mount")
          => \/ status = "idle" /\ status' \in {"running", "error"}
             \/ status = "running" /\ status' \in {"posting", "error"}
             \/ status = "posting" /\ status' \in {"finished", "error"}
             \/ status # "idle" /\ status' = "idle"]_vars

FieldMissing == username = "" \/ authToken = "" \/ goalSlug = ""

\* C22: when remaining reaches 0 while username, token or goal is empty,
\* status becomes error with a message and no request is issued; and from
\* then on neither the effects nor the clock change anything: the state
\* stands until the user acts.
C22_ZeroWithMissingField ==
    [][/\ (postEffectPending /\ status = "running" /\ remaining = Some(0)
             /\ FieldMissing)
          => (/\ status' = "error" /\ ~IsNull(error')
              /\ posts' = posts /\ goalFetches' = goalFetches)
       /\ (status = "error" /\ remaining = Some(0) /\ FieldMissing
             /\ (postEffectPending \/ now' # now))
          => UNCHANGED <<timerVars, sessionVars, accountVars, goalVars, storage,
                         posts, goalFetches>>]_vars

\* a restored timer has run to 0 with no username: error is shown, nothing
\* was posted, and the effects have run their course
C22_StoppedAtZeroWithoutCredentials ==
    /\ status = "error" /\ remaining = Some(0) /\ username = ""
    /\ error = Some("Username, auth token and goal slug are required.")
    /\ posts = <<>> /\ ~postEffectPending /\ lastEvent = "tick"

\* C23: cancel and reset-after-finish each set status idle, remaining null,
\* deadline null, paused false, error null and flush message null, and leave
\* username, token, goal, comment, selected duration, the goal list and the
\* settings and goal-cache records unchanged.
C23_CancelAndResetFrame ==
    [][(~postEffectPending /\ lastEvent' \in {"cancel", "reset"} /\ now' = now)
          => /\ status' = "idle" /\ remaining' = Null /\ deadline' = Null
             /\ paused' = FALSE /\ error' = Null /\ flushMessage' = Null
             /\ UNCHANGED <<username, authToken, goalSlug, comment,
                            selectedDuration, goals>>
             /\ storage'[SETTINGS_KEY] = storage[SETTINGS_KEY]
             /\ storage'[GOALS_KEY] = storage[GOALS_KEY]]_vars

\* a reset has just cleared a session that ended in error, with saved
\* settings, a cached goal list and a selected goal left in place
C23_ResetAfterError ==
    /\ lastEvent = "reset" /\ status = "idle" /\ IsNull(error)
    /\ IsNull(remaining) /\ IsNull(deadline) /\ ~paused
    /\ username # "" /\ goalSlug # "" /\ goals # <<>>
    /\ ~IsNull(StoredObject(storage, SETTINGS_KEY))
    /\ ~IsNull(StoredObject(storage, GOALS_KEY))
    /\ IsNull(storage[TIMER_STATE_KEY])

RefreshSucceeded == ~postEffectPending /\ lastEvent' = "goalsOk" /\ now' = now

\* C24: after a successful refresh the goal list in memory and the cached
\* list are exactly the returned goals whose unit is minutes, in returned
\* order, the last-refreshed timestamp is the time of the refresh, and the
\* selected goal becomes the first of the filtered list if none was selected
\* and the list is non-empty, and is left as it was otherwise.
C24_RefreshResult ==
    [][RefreshSucceeded
          => /\ \E list \in ServerGoalLists : goals' = FilterMinutes(list)
             /\ StoredObject(storage', GOALS_KEY)
                   = Some([goals |-> goals', updatedAt |-> now])
             /\ lastGoalsUpdate' = Some(now)
             /\ goalSlug' = IF goalSlug = "" /\ goals' # <<>>
                            THEN goals'[1].slug
                            ELSE goalSlug]_vars

\* C25: a restart preserves the timer.  Reloading while a timer is paused
\* restores a paused timer, with the remaining it had, that no tick changes
\* while it stays paused; reloading while a timer runs unpaused restores a
\* running unpaused timer with the deadline it had, so that it keeps counting
\* down to 0 at that deadline.
C25_RestartPreservesTimer ==
    [][/\ (PageLoaded /\ status = "running")
          => /\ status' = "running" /\ paused' = paused
             /\ paused => remaining' = remaining
             /\ ~paused => deadline' = deadline
       /\ (~postEffectPending /\ lastEvent' = "tick" /\ now' = now /\ paused)
          => remaining' = remaining]_vars

\* C26: each started session results in at most one datapoint accepted by
\* the remote service, whatever the interleaving of ticks, responses, user
\* actions and page reloads; a reload while the completion post is in flight
\* does not lead to a second post of the same session.  (Stated for the
\* completion datapoints of sessions of positive duration.)
C26_AtMostOneDatapoint == selectedDuration > 0 => accepted <= 1

\* C27: nothing, neither user input nor the answer to an earlier refresh of
\* the goals, changes the selected goal, the comment or the selected duration
\* while status is running, so the completion post uses the values in effect
\* when the timer was started.
C27_SessionInputsFixedWhileRunning ==
    [][status = "running" => UNCHANGED <<goalSlug, comment, selectedDuration>>]_vars

\* C28: the selected duration is positive in every reachable state, whether
\* it comes from a duration button, the typed duration or the state restored
\* at startup; so no timer runs with a non-positive duration and no
\* completion datapoint of value <= 0 is in flight.
C28_DurationPositive ==
    /\ selectedDuration > 0
    /\ \A i \in 1..Len(posts) :
          posts[i].kind = "complete"
             => (posts[i].value.whole > 0 \/ posts[i].value.sixtieths > 0)

\* A start, a pause or a resume, from a button or from the space bar.  In
\* posting, finished and error no such button is rendered: there the step is
\* the space bar's.
StartOrToggle ==
    ~postEffectPending /\ lastEvent' \in {"start", "pause", "resume"} /\ now' = now

\* C30: the space bar acts like the buttons.  With goal, username and token
\* set and a positive duration it starts the timer when status is idle and
\* toggles pause when status is running; when status is posting, finished or
\* error it changes neither the timer state nor storage.
C30_SpaceBarLikeButtons ==
    [][StartOrToggle
          => /\ (status = "idle" /\ goalSlug # "" /\ username # "" /\ authToken # "")
                => (status' = "running" /\ remaining' = Some(selectedDuration))
             /\ status = "running"
                => (status' = "running" /\ paused' = ~paused)
             /\ status \in {"posting", "finished", "error"}
                => UNCHANGED <<timerVars, storage>>]_vars

\* C29: a timer that is started and then neither left paused for ever nor
\* cancelled nor flushed, with ticks firing as the clock advances, eventually
\* has remaining 0 and a status other than running; and when the remote
\* answers, a status of posting is eventually followed by finished or error.
C29_TimerCompletes ==
    /\ status = "running" ~> (remaining = Some(0) /\ status # "running")
    /\ status = "posting" ~> status \in {"finished", "error"}

\* C31: in every reachable state the selected goal is either empty or the
\* slug of a goal of the current goal list, also after a refresh has returned
\* a list without the goal selected before.
C31_SelectedGoalInList == goalSlug = "" \/ goalSlug \in Slugs(goals)

\* C32: with punctual ticks and no pause, the countdown of the first variant
\* (one less each second) and the countdown of the later variants (recomputed
\* from the deadline) show the same remaining at every whole second from the
\* start until 0, and neither ever shows a negative value.
C32_CountdownsAgree ==
    /\ [][(now' # now /\ ~IsNull(deadline)
             /\ (Val(deadline) - now) % MsPerSecond = 0)
          => remaining = firstRemaining]_vars
    /\ [](~IsNull(firstRemaining) => Val(firstRemaining) >= 0)
    /\ [](~IsNull(remaining) => Val(remaining) >= 0)

\* both countdowns stand at 0 just after the deadline of a timer started half
\* a second after the page was loaded
C32_BothAtZero ==
    /\ firstRemaining = Some(0) /\ remaining = Some(0)
    /\ ~IsNull(deadline) /\ now = Val(deadline) + TickMs
    /\ Val(deadline) = 2 * TickMs + THIRTY_MINUTES * MsPerSecond

====
